---- MODULE Spec2Model ----
(***************************************************************************)
(* A model of geoipdb's ASN description overrides (overrides.go) and of    *)
(* the IP locality classifier (iputils, IsLocalIP).                        *)
(*                                                                         *)
(* The handler part is a set of client goroutines calling the Overrides*   *)
(* methods and the resolution entry point on one shared Handler.  Every    *)
(* access to shared state (the cache, the overrides collection) is one     *)
(* atomic step; pc records where each goroutine stands in its call.        *)
(***************************************************************************)
EXTENDS Integers, Sequences, FiniteSets, TLC

(***************************************************************************)
(* Bounds of the model.                                                    *)
(***************************************************************************)
NumClients == 2     \* concurrent callers of one Handler
MaxMutations == 3   \* OverridesSet/OverridesRemove calls started in a sequential run
MaxConcMutations == 2   \* the same, in a run of concurrent callers

Clients == 1..NumClients
SeqClients == {1}   \* the one caller of the sequential runs

(***************************************************************************)
(* Identifiers are strings, written as sequences of characters so that the *)
(* ASN syntax is decided by matching, as reASN.MatchString does.           *)
(***************************************************************************)
Digits == {"0", "1", "2", "3", "4", "5", "6", "7", "8", "9"}

AS1 == <<"A", "S", "1">>
AS22 == <<"A", "S", "2", "2">>
BadAS == <<"A", "S">>

Asns == {AS1, AS22, BadAS}
ConcAsns == {AS1}   \* the identifier the concurrent callers contend on
Descrs == {"d1", "d2"}
ResolverNames == {"r1"}

\* reASN.MatchString(asn): the letters AS followed by one or more digits.
reASNMatch(asn) ==
    /\ Len(asn) >= 3
    /\ asn[1] = "A"
    /\ asn[2] = "S"
    /\ \A i \in 3..Len(asn) : asn[i] \in Digits

(***************************************************************************)
(* Error values of the package.                                            *)
(***************************************************************************)
NoError == "nil"
OverridesNilCollectionError == "nil overrides collection"
OverridesAsnNotFoundError == "ASN not found"
OverridesMalformedAsnError == "malformed ASN"
WrappedError == "wrapped storage error"

\* What the driver (mgo) answers to one request.
DriverOk == "ok"
DriverErrNotFound == "mgo.ErrNotFound"
DriverFailure == "failure"

VARIABLES
    configured,   \* h.overrides # nil
    store,        \* the overrides collection: a set of AsnOverride documents
    cache,        \* h.cache: asn -> NoEntry or [name, stamp]
    tokens,       \* h.cache: the resolutions in flight that may still Put, per asn
    pc,           \* per client: "idle", "set", "remove", "cache", "resolver", "put"
    arg,          \* per client: the arguments, locals and history of the call in progress
    ret,          \* what the call completed last returned and observed
    clock,        \* history: the number of mutations started so far
    done,         \* history: asn -> tick of the latest successful mutation completed
    shadow,       \* history: asn -> description last set and not since removed
    replaced,     \* history: the asns whose override was set over a cached resolution
    input,        \* the address given to IsLocalIP
    ipPc,         \* "boot" before init() has run, then "ready", "done" or "panic"
    isLocal,      \* what IsLocalIP returned
    build,        \* the entries of the two tables this build declares otherwise
    ranged        \* history: the tables the loops of IsLocalIP ranged over

handlerVars == <<configured, store, cache, tokens, pc, arg, ret, clock, done, shadow, replaced>>
ipVars == <<input, ipPc, isLocal, build, ranged>>
vars == <<handlerVars, ipVars>>

NoEntry == [name |-> "", stamp |-> -1]
NoName == ""

(***************************************************************************)
(* The overrides collection, a set of documents [asn, name] (AsnOverride), *)
(* and the four requests the handler sends to it.                          *)
(***************************************************************************)
AsnOverride(asn, name) == [asn |-> asn, name |-> name]

Docs(coll, asn) == {d \in coll : d.asn = asn}

\* FindId(asn).One(&override): the document found, when there is one.
FindId(coll, asn) == CHOOSE d \in Docs(coll, asn) : TRUE

\* An insert that leaves an existing document as it is.
UpsertIdInsertOnly(coll, asn, descr) ==
    IF Docs(coll, asn) = {} THEN coll \cup {AsnOverride(asn, descr)} ELSE coll

\* An insert that adds a document whatever the collection holds.
UpsertIdInsert(coll, asn, descr) ==
    coll \cup {AsnOverride(asn, descr)}

\* UpsertId(asn, {$set: {name: descr}}): update the document, or insert it.
UpsertId(coll, asn, descr) ==
    (coll \ Docs(coll, asn)) \cup {AsnOverride(asn, descr)}

\* A remove that takes every document.
RemoveAll(coll, asn) == {}

\* RemoveId(asn)
RemoveId(coll, asn) == coll \ Docs(coll, asn)

(***************************************************************************)
(* The cache.                                                              *)
(***************************************************************************)
\* cache.purgeASN(asn): drop the entry, and refuse the Put of every
\* resolution of asn that is still in flight.
purgeASN(c, asn) == [c EXCEPT ![asn] = NoEntry]

purgeTokens(t, asn) == [t EXCEPT ![asn] = {}]

(***************************************************************************)
(* The IP locality classifier (package iputils).  An address is a slice of *)
(* bytes (net.IP); a CIDR is a string, written as a sequence of            *)
(* characters and parsed as net.ParseCIDR parses it.                       *)
(***************************************************************************)
IPv4len == 4
IPv6len == 16

nonGlobalIPv4CIDRs == <<
    \* 127.0.0.0/8  Loopback, RFC1122
    <<"1", "2", "7", ".", "0", ".", "0", ".", "0", "/", "8">>,
    \* 192.168.0.0/16  Private-Use, RFC1918
    <<"1", "9", "2", ".", "1", "6", "8", ".", "0", ".", "0", "/", "1", "6">>,
    \* 10.0.0.0/8  Private-Use, RFC1918
    <<"1", "0", ".", "0", ".", "0", ".", "0", "/", "8">>,
    \* 172.16.0.0/12  Private-Use, RFC1918
    <<"1", "7", "2", ".", "1", "6", ".", "0", ".", "0", "/", "1", "2">>,
    \* 0.0.0.0/8  This host on this network, RFC1122
    <<"0", ".", "0", ".", "0", ".", "0", "/", "8">>,
    \* 100.64.0.0/10  Shared Address Space, RFC6598
    <<"1", "0", "0", ".", "6", "4", ".", "0", ".", "0", "/", "1", "0">>,
    \* 169.254.0.0/16  Link Local, RFC3927
    <<"1", "6", "9", ".", "2", "5", "4", ".", "0", ".", "0", "/", "1", "6">>,
    \* 192.0.0.0/24  IETF Protocol Assignments, RFC6890
    <<"1", "9", "2", ".", "0", ".", "0", ".", "0", "/", "2", "4">>,
    \* 192.0.2.0/24  Documentation (TEST-NET-1), RFC5737
    <<"1", "9", "2", ".", "0", ".", "2", ".", "0", "/", "2", "4">>,
    \* 198.18.0.0/15  Benchmarking, RFC2544
    <<"1", "9", "8", ".", "1", "8", ".", "0", ".", "0", "/", "1", "5">>,
    \* 198.51.100.0/24  Documentation (TEST-NET-2), RFC5737
    <<"1", "9", "8", ".", "5", "1", ".", "1", "0", "0", ".", "0", "/", "2", "4">>,
    \* 203.0.113.0/24  Documentation (TEST-NET-3), RFC5737
    <<"2", "0", "3", ".", "0", ".", "1", "1", "3", ".", "0", "/", "2", "4">>,
    \* 240.0.0.0/4  Reserved, RFC1112
    <<"2", "4", "0", ".", "0", ".", "0", ".", "0", "/", "4">>,
    \* 255.255.255.255/32  Limited Broadcast, RFC919
    <<"2", "5", "5", ".", "2", "5", "5", ".", "2", "5", "5", ".", "2", "5", "5", "/", "3", "2">>
>>

nonGlobalIPv6CIDRs == <<
    \* ::1/128  Loopback Address, RFC4291
    <<":", ":", "1", "/", "1", "2", "8">>,
    \* fc00::/7  Unique-Local, RFC4193
    <<"f", "c", "0", "0", ":", ":", "/", "7">>,
    \* ::ffff:0:0/96  IPv4-mapped Address, RFC4291
    <<":", ":", "f", "f", "f", "f", ":", "0", ":", "0", "/", "9", "6">>,
    \* 2001::/23  IETF Protocol Assignments, RFC2928
    <<"2", "0", "0", "1", ":", ":", "/", "2", "3">>,
    \* fe80::/10  Linked-Scoped Unicast, RFC4291
    <<"f", "e", "8", "0", ":", ":", "/", "1", "0">>,
    \* 2001:db8::/32  Documentation, RFC3849
    <<"2", "0", "0", "1", ":", "d", "b", "8", ":", ":", "/", "3", "2">>,
    \* 2001:2::/48  Benchmarking, RFC5180
    <<"2", "0", "0", "1", ":", "2", ":", ":", "/", "4", "8">>,
    \* 2001::/32  TEREDO, RFC4380
    <<"2", "0", "0", "1", ":", ":", "/", "3", "2">>,
    \* 100::/64  Discard-Only Address Block, RFC6666
    <<"1", "0", "0", ":", ":", "/", "6", "4">>,
    \* ::/128  Unspecified Address, RFC4291
    <<":", ":", "/", "1", "2", "8">>
>>

DecChars == <<"0", "1", "2", "3", "4", "5", "6", "7", "8", "9">>
HexChars == <<"0", "1", "2", "3", "4", "5", "6", "7", "8", "9",
              "a", "b", "c", "d", "e", "f">>
HexUpper == <<"0", "1", "2", "3", "4", "5", "6", "7", "8", "9",
              "A", "B", "C", "D", "E", "F">>

\* The value of character c among chars (0-based), or -1.
DigitOf(c, chars) ==
    IF \E i \in 1..Len(chars) : chars[i] = c
    THEN (CHOOSE i \in 1..Len(chars) : chars[i] = c) - 1
    ELSE -1

HexDigitOf(c) == IF DigitOf(c, HexChars) >= 0 THEN DigitOf(c, HexChars)
                 ELSE DigitOf(c, HexUpper)

RECURSIVE Number(_, _, _)
\* The number the digits of s spell in the given base onto acc, or -1.
Number(s, base, acc) ==
    IF s = <<>> THEN acc
    ELSE LET d == IF base = 10 THEN DigitOf(Head(s), DecChars) ELSE HexDigitOf(Head(s))
         IN IF d < 0 THEN -1 ELSE Number(Tail(s), base, acc * base + d)

\* A decimal number of one to three digits, or -1.
Dec(s) == IF Len(s) \in 1..3 THEN Number(s, 10, 0) ELSE -1

\* A hexadecimal number of one to four digits, or -1.
Hex(s) == IF Len(s) \in 1..4 THEN Number(s, 16, 0) ELSE -1

\* The place of the first c in s, or 0.
IndexOf(s, c) ==
    IF \E i \in 1..Len(s) : s[i] = c
    THEN CHOOSE i \in 1..Len(s) : s[i] = c /\ \A j \in 1..(i - 1) : s[j] # c
    ELSE 0

RECURSIVE Split(_, _)
\* The fields of s between the separators c.
Split(s, c) ==
    LET i == IndexOf(s, c) IN
    IF i = 0 THEN <<s>>
    ELSE <<SubSeq(s, 1, i - 1)>> \o Split(SubSeq(s, i + 1, Len(s)), c)

RECURSIVE Flatten(_)
Flatten(ss) == IF ss = <<>> THEN <<>> ELSE Head(ss) \o Flatten(Tail(ss))

Zeros(n) == [i \in 1..n |-> 0]

\* The four bytes of a dotted quad, or <<>> (nil).
parseIPv4(s) ==
    LET f == Split(s, ".") IN
    IF Len(f) = IPv4len /\ \A i \in 1..Len(f) : Dec(f[i]) \in 0..255
    THEN [i \in 1..IPv4len |-> Dec(f[i])]
    ELSE <<>>

\* The place of the first "::" in s, or 0.
EllipsisAt(s) ==
    IF \E i \in 1..(Len(s) - 1) : s[i] = ":" /\ s[i + 1] = ":"
    THEN CHOOSE i \in 1..(Len(s) - 1) :
            /\ s[i] = ":" /\ s[i + 1] = ":"
            /\ \A j \in 1..(i - 1) : ~(s[j] = ":" /\ s[j + 1] = ":")
    ELSE 0

Groups(s) == IF s = <<>> THEN <<>> ELSE Split(s, ":")

\* The sixteen bytes of colon-separated hexadecimal groups, "::" standing for
\* one or more groups of zeros; <<>> (nil) when s is not of that form.
parseIPv6(s) ==
    LET e == EllipsisAt(s)
        left == IF e = 0 THEN Groups(s) ELSE Groups(SubSeq(s, 1, e - 1))
        right == IF e = 0 THEN <<>> ELSE Groups(SubSeq(s, e + 2, Len(s)))
        given == left \o right
        n == Len(given)
    IN IF /\ \A i \in 1..n : Hex(given[i]) >= 0
          /\ IF e = 0 THEN n = 8 ELSE n <= 7
       THEN LET words == [i \in 1..Len(left) |-> Hex(left[i])]
                            \o Zeros(8 - n)
                            \o [i \in 1..Len(right) |-> Hex(right[i])]
            IN Flatten([i \in 1..8 |-> <<words[i] \div 256, words[i] % 256>>])
       ELSE <<>>

Pow2(k) == 2 ^ k

\* net.CIDRMask(ones, bits)
CIDRMask(ones, bits) ==
    [i \in 1..(bits \div 8) |->
        IF ones >= 8 * i THEN 255
        ELSE IF ones <= 8 * (i - 1) THEN 0
        ELSE 256 - Pow2(8 * i - ones)]

\* b & m, for a byte m of a CIDR mask
AndByte(b, m) == b - (b % (256 - m))

\* ip.Mask(mask), for an address and a mask of the same length
MaskIP(ip, mask) == [i \in 1..Len(ip) |-> AndByte(ip[i], mask[i])]

NoNet == [err |-> TRUE, ip |-> <<>>, mask |-> <<>>]

\* net.ParseCIDR(s): the network (IPNet) of s, or an error.
ParseCIDR(s) ==
    LET i == IndexOf(s, "/")
        addr == SubSeq(s, 1, i - 1)
        n == Dec(SubSeq(s, i + 1, Len(s)))
        ip4 == parseIPv4(addr)
        ip == IF ip4 # <<>> THEN ip4 ELSE parseIPv6(addr)
    IN IF i = 0 \/ ip = <<>> \/ n < 0 \/ n > 8 * Len(ip) THEN NoNet
       ELSE LET m == CIDRMask(n, 8 * Len(ip))
            IN [err |-> FALSE, ip |-> MaskIP(ip, m), mask |-> m]

v4InV6Prefix == Zeros(10) \o <<255, 255>>

\* A To4 that knows no IPv4-mapped address.
To4PlainOnly(ip) ==
    IF Len(ip) = IPv4len THEN ip ELSE <<>>

\* ip.To4(): the 4-byte form of ip, or <<>> (nil).
To4(ip) ==
    IF Len(ip) = IPv4len THEN ip
    ELSE IF Len(ip) = IPv6len /\ SubSeq(ip, 1, 12) = v4InV6Prefix THEN SubSeq(ip, 13, 16)
    ELSE <<>>

\* ip.To16(): the 16-byte form of ip, or <<>> (nil).
To16(ip) ==
    IF Len(ip) = IPv4len THEN v4InV6Prefix \o ip
    ELSE IF Len(ip) = IPv6len THEN ip
    ELSE <<>>

\* networkNumberAndMask(n) of package net; nn = <<>> stands for nil.
networkNumberAndMask(n) ==
    LET ip4 == To4(n.ip)
        ip == IF ip4 # <<>> THEN ip4 ELSE n.ip
    IN IF ip4 = <<>> /\ Len(n.ip) # IPv6len THEN [nn |-> <<>>, m |-> <<>>]
       ELSE IF Len(n.mask) = IPv4len
            THEN IF Len(ip) # IPv4len THEN [nn |-> <<>>, m |-> <<>>]
                 ELSE [nn |-> ip, m |-> n.mask]
       ELSE IF Len(n.mask) = IPv6len
            THEN IF Len(ip) = IPv4len THEN [nn |-> ip, m |-> SubSeq(n.mask, 13, 16)]
                 ELSE [nn |-> ip, m |-> n.mask]
       ELSE [nn |-> <<>>, m |-> <<>>]

\* inet.Contains(ip)
Contains(n, ip) ==
    LET nm == networkNumberAndMask(n)
        x == IF To4(ip) # <<>> THEN To4(ip) ELSE ip
    IN /\ Len(x) = Len(nm.nn)
       /\ \A i \in 1..Len(x) : AndByte(nm.nn[i], nm.m[i]) = AndByte(x[i], nm.m[i])

\* A loop that answers true only for an address in exactly one entry.
AnyContainsOnce(cidrs, ip) ==
    Cardinality({i \in 1..Len(cidrs) :
        LET inet == ParseCIDR(cidrs[i]) IN ~inet.err /\ Contains(inet, ip)}) = 1

\* One of the two loops of IsLocalIP: some parseable CIDR contains ip.
AnyContains(cidrs, ip) ==
    \E i \in 1..Len(cidrs) :
        LET inet == ParseCIDR(cidrs[i]) IN ~inet.err /\ Contains(inet, ip)

\* An address as IsLocalIP receives it: nil, or a slice of bytes.
NilIP == [nil |-> TRUE, b |-> <<>>]
IP(b) == [nil |-> FALSE, b |-> b]

\* The two tables as the source declares them.
Shipped == [v4 |-> nonGlobalIPv4CIDRs, v6 |-> nonGlobalIPv6CIDRs]

\* A table of this build: an entry [table, at, cidr] of build stands in the
\* place of entry at of the table as declared.
Declared(cidrs, t) ==
    [i \in 1..Len(cidrs) |->
        IF \E r \in build : r.table = t /\ r.at = i
        THEN (CHOOSE r \in build : r.table = t /\ r.at = i).cidr
        ELSE cidrs[i]]

\* The package variables nonGlobalIPv4CIDRs (v4) and nonGlobalIPv6CIDRs (v6).
tables == [v4 |-> Declared(nonGlobalIPv4CIDRs, "v4"),
           v6 |-> Declared(nonGlobalIPv6CIDRs, "v6")]

\* IsLocalIP sending a nil address through To4 and To16 like any other.
IsLocalIPNoNilCheck(ip) ==
    IF To4(ip.b) # <<>> THEN AnyContains(tables.v4, To4(ip.b))
    ELSE IF To16(ip.b) # <<>> THEN AnyContains(tables.v6, To16(ip.b))
    ELSE FALSE

IsLocalIP(ip) ==
    IF ip.nil THEN TRUE
    ELSE IF To4(ip.b) # <<>> THEN AnyContains(tables.v4, To4(ip.b))
    ELSE IF To16(ip.b) # <<>> THEN AnyContains(tables.v6, To16(ip.b))
    ELSE FALSE

\* The tables the loops of IsLocalIP(ip) range over.
Ranged(ip) ==
    IF ip.nil THEN {}
    ELSE IF To4(ip.b) # <<>> THEN {"v4"}
    ELSE IF To16(ip.b) # <<>> THEN {"v6"}
    ELSE {}

EmptyArg == [asn |-> <<>>, descr |-> NoName, tick |-> 0, since |-> 0,
             had |-> FALSE, purged |-> FALSE, name |-> NoName, stamp |-> -1,
             set |-> NoName, over |-> FALSE, crossed |-> FALSE]

EmptyRet == [op |-> "none", asn |-> <<>>, descr |-> NoName, name |-> NoName,
             err |-> NoError, src |-> "none", io |-> "none", list |-> {},
             isNil |-> FALSE, had |-> FALSE, purged |-> FALSE, wrote |-> FALSE,
             stamp |-> -1, since |-> 0, set |-> NoName, over |-> FALSE]

InitHandler(conf) ==
    /\ configured \in conf
    /\ store = {}
    /\ cache = [a \in Asns |-> NoEntry]
    /\ tokens = [a \in Asns |-> {}]
    /\ pc = [p \in Clients |-> "idle"]
    /\ arg = [p \in Clients |-> EmptyArg]
    /\ ret = EmptyRet
    /\ clock = 0
    /\ done = [a \in Asns |-> 0]
    /\ shadow = [a \in Asns |-> NoName]
    /\ replaced = {}

InitIP(inputs, builds) ==
    /\ input \in inputs
    /\ ipPc = "boot"
    /\ isLocal = FALSE
    /\ build \in builds
    /\ ranged = {}

Init == InitHandler(BOOLEAN) /\ InitIP({NilIP}, {{}})

Max(a, b) == IF a >= b THEN a ELSE b

\* The call of client p ends: its locals are dropped.
Return(p) ==
    /\ pc' = [pc EXCEPT ![p] = "idle"]
    /\ arg' = [arg EXCEPT ![p] = EmptyArg]

\* What a read of asn that starts now has before it.
ReadStart(r, asn) ==
    [r EXCEPT !.asn = asn, !.since = done[asn], !.set = shadow[asn],
              !.over = (asn \in replaced)]

(***************************************************************************)
(* OverridesLookup: one request to the collection.                         *)
(***************************************************************************)
\* OverridesLookup with a request that finds nothing.
LookupResultMiss(asn, io) ==
    IF ~configured THEN [name |-> NoName, err |-> OverridesNilCollectionError, io |-> "none"]
    ELSE IF io = DriverFailure THEN [name |-> NoName, err |-> WrappedError, io |-> io]
    ELSE [name |-> NoName, err |-> OverridesAsnNotFoundError, io |-> DriverErrNotFound]

\* The nil check, the request, and what becomes of the driver's answer.
LookupResult(asn, io) ==
    IF ~configured THEN [name |-> NoName, err |-> OverridesNilCollectionError, io |-> "none"]
    ELSE IF io = DriverFailure THEN [name |-> NoName, err |-> WrappedError, io |-> io]
    ELSE IF Docs(store, asn) = {}
         THEN [name |-> NoName, err |-> OverridesAsnNotFoundError, io |-> DriverErrNotFound]
         ELSE [name |-> FindId(store, asn).name, err |-> NoError, io |-> DriverOk]

OverridesLookup(p, asn) ==
    /\ pc[p] = "idle"
    /\ \E io \in {DriverOk, DriverFailure} :
         LET r == LookupResult(asn, io) IN
         ret' = [ReadStart(EmptyRet, asn) EXCEPT !.op = "lookup",
                    !.name = r.name, !.err = r.err, !.io = r.io,
                    !.src = IF r.err = NoError THEN "store" ELSE "none"]
    /\ UNCHANGED <<ipVars, configured, store, cache, tokens, pc, arg, clock, done, shadow, replaced>>

(***************************************************************************)
(* OverridesSet: the purge of the cache, then the checks and the upsert.   *)
(***************************************************************************)
\* The first step of a mutation: the cache and its tokens become c and t.
\* The resolutions of asn in flight are marked: a purge crossed them.
BeginMutation(p, asn, descr, next, c, t, m) ==
    /\ pc[p] = "idle"
    /\ clock < m
    /\ cache' = c
    /\ tokens' = t
    /\ clock' = clock + 1
    /\ arg' = [q \in Clients |->
                  IF q = p
                  THEN [EmptyArg EXCEPT !.asn = asn, !.descr = descr,
                           !.tick = clock + 1,
                           !.had = (cache[asn] # NoEntry),
                           !.purged = (cache[asn] # NoEntry /\ c[asn] = NoEntry)]
                  ELSE IF pc[q] \in {"cache", "resolver", "put"} /\ arg[q].asn = asn
                       THEN [arg[q] EXCEPT !.crossed = TRUE]
                       ELSE arg[q]]
    /\ pc' = [pc EXCEPT ![p] = next]
    /\ UNCHANGED <<ipVars, configured, store, ret, done, shadow, replaced>>

\* OverridesSet without its purge.
SetSkipPurge(p, asn, descr, m) ==
    BeginMutation(p, asn, descr, "set", cache, tokens, m)

\* h.cache.purgeASN(asn), the first statement of OverridesSet
SetPurge(p, asn, descr, m) ==
    BeginMutation(p, asn, descr, "set", purgeASN(cache, asn), purgeTokens(tokens, asn), m)

\* OverridesSet without its syntax check.
SetResultNoValidation(asn, io) ==
    IF ~configured THEN [err |-> OverridesNilCollectionError, io |-> "none"]
    ELSE IF io = DriverFailure THEN [err |-> WrappedError, io |-> io]
    ELSE [err |-> NoError, io |-> DriverOk]

\* OverridesSet with the syntax check before the nil check.
SetResultValidateFirst(asn, io) ==
    IF ~reASNMatch(asn) THEN [err |-> OverridesMalformedAsnError, io |-> "none"]
    ELSE IF ~configured THEN [err |-> OverridesNilCollectionError, io |-> "none"]
    ELSE IF io = DriverFailure THEN [err |-> WrappedError, io |-> io]
    ELSE [err |-> NoError, io |-> DriverOk]

\* The nil check, the syntax check, and what becomes of the driver's answer.
SetResult(asn, io) ==
    IF ~configured THEN [err |-> OverridesNilCollectionError, io |-> "none"]
    ELSE IF ~reASNMatch(asn) THEN [err |-> OverridesMalformedAsnError, io |-> "none"]
    ELSE IF io = DriverFailure THEN [err |-> WrappedError, io |-> io]
    ELSE [err |-> NoError, io |-> DriverOk]

SetUpsert(p) ==
    /\ pc[p] = "set"
    /\ \E io \in {DriverOk, DriverFailure} :
         LET a == arg[p]
             r == SetResult(a.asn, io)
         IN /\ store' = IF r.err = NoError THEN UpsertId(store, a.asn, a.descr) ELSE store
            /\ shadow' = IF r.err = NoError THEN [shadow EXCEPT ![a.asn] = a.descr] ELSE shadow
            /\ replaced' = IF r.err # NoError THEN replaced
                           ELSE IF a.purged THEN replaced \cup {a.asn}
                           ELSE replaced \ {a.asn}
            /\ done' = IF r.err = NoError
                       THEN [done EXCEPT ![a.asn] = Max(@, a.tick)] ELSE done
            /\ ret' = [EmptyRet EXCEPT !.op = "set", !.asn = a.asn,
                          !.descr = a.descr, !.err = r.err, !.io = r.io,
                          !.had = a.had, !.purged = a.purged,
                          !.set = shadow[a.asn],
                          !.wrote = (store' # store \/ r.err = NoError)]
    /\ Return(p)
    /\ UNCHANGED <<ipVars, configured, cache, tokens, clock>>

(***************************************************************************)
(* OverridesRemove: the purge of the cache, then the delete.               *)
(***************************************************************************)
\* OverridesRemove without its purge.
RemoveSkipPurge(p, asn, m) ==
    BeginMutation(p, asn, NoName, "remove", cache, tokens, m)

\* h.cache.purgeASN(asn), the first statement of OverridesRemove
RemovePurge(p, asn, m) ==
    BeginMutation(p, asn, NoName, "remove", purgeASN(cache, asn), purgeTokens(tokens, asn), m)

\* OverridesRemove reporting mgo.ErrNotFound like any other error.
RemoveResultStrict(asn, io) ==
    IF ~configured THEN [err |-> OverridesNilCollectionError, io |-> "none"]
    ELSE IF io = DriverFailure THEN [err |-> WrappedError, io |-> io]
    ELSE IF Docs(store, asn) = {} THEN [err |-> WrappedError, io |-> DriverErrNotFound]
    ELSE [err |-> NoError, io |-> DriverOk]

RemoveResult(asn, io) ==
    IF ~configured THEN [err |-> OverridesNilCollectionError, io |-> "none"]
    ELSE IF io = DriverFailure THEN [err |-> WrappedError, io |-> io]
    ELSE IF Docs(store, asn) = {} THEN [err |-> NoError, io |-> DriverErrNotFound]
    ELSE [err |-> NoError, io |-> DriverOk]

RemoveDelete(p) ==
    /\ pc[p] = "remove"
    /\ \E io \in {DriverOk, DriverFailure} :
         LET a == arg[p]
             r == RemoveResult(a.asn, io)
         IN /\ store' = IF r.io = DriverOk THEN RemoveId(store, a.asn) ELSE store
            /\ shadow' = IF r.io = DriverOk THEN [shadow EXCEPT ![a.asn] = NoName] ELSE shadow
            /\ replaced' = IF r.io = DriverOk THEN replaced \ {a.asn} ELSE replaced
            /\ done' = IF r.err = NoError
                       THEN [done EXCEPT ![a.asn] = Max(@, a.tick)] ELSE done
            /\ ret' = [EmptyRet EXCEPT !.op = "remove", !.asn = a.asn,
                          !.err = r.err, !.io = r.io,
                          !.had = a.had, !.purged = a.purged,
                          !.wrote = (store' # store)]
    /\ Return(p)
    /\ UNCHANGED <<ipVars, configured, cache, tokens, clock>>

(***************************************************************************)
(* OverridesList: one request to the collection.  The driver leaves the    *)
(* answer nil or makes it an empty slice when there is no document.        *)
(***************************************************************************)
\* OverridesList returning the driver's nil answer as it is.
ListResultNil(io, driverNil) ==
    IF ~configured THEN [list |-> {}, isNil |-> TRUE, err |-> OverridesNilCollectionError, io |-> "none"]
    ELSE IF io = DriverFailure THEN [list |-> {}, isNil |-> TRUE, err |-> WrappedError, io |-> io]
    ELSE [list |-> store, isNil |-> (store = {} /\ driverNil), err |-> NoError, io |-> DriverOk]

ListResult(io, driverNil) ==
    IF ~configured THEN [list |-> {}, isNil |-> TRUE, err |-> OverridesNilCollectionError, io |-> "none"]
    ELSE IF io = DriverFailure THEN [list |-> {}, isNil |-> TRUE, err |-> WrappedError, io |-> io]
    ELSE IF store = {} /\ driverNil
         THEN [list |-> {}, isNil |-> FALSE, err |-> NoError, io |-> DriverOk]
         ELSE [list |-> store, isNil |-> FALSE, err |-> NoError, io |-> DriverOk]

OverridesList(p) ==
    /\ pc[p] = "idle"
    /\ \E io \in {DriverOk, DriverFailure}, driverNil \in BOOLEAN :
         LET r == ListResult(io, driverNil) IN
         ret' = [EmptyRet EXCEPT !.op = "list", !.list = r.list, !.isNil = r.isNil,
                    !.err = r.err, !.io = r.io]
    /\ UNCHANGED <<ipVars, configured, store, cache, tokens, pc, arg, clock, done, shadow, replaced>>

(***************************************************************************)
(* The resolution entry point: the override, else the cache, else the      *)
(* external resolver, whose answer is put in the cache.  A resolution that *)
(* goes past the collection is known to the cache from its start (its      *)
(* token), so that a purge can void the Put of a resolution in flight.     *)
(***************************************************************************)
ResolveStore(p, asn) ==
    /\ pc[p] = "idle"
    /\ \E io \in {DriverOk, DriverFailure} :
         LET r == LookupResult(asn, io) IN
         IF r.err \in {OverridesAsnNotFoundError, OverridesNilCollectionError}
         THEN /\ pc' = [pc EXCEPT ![p] = "cache"]
              /\ arg' = [arg EXCEPT ![p] = ReadStart(EmptyArg, asn)]
              /\ tokens' = [tokens EXCEPT ![asn] = @ \cup {p}]
              /\ ret' = ret
         ELSE /\ ret' = [ReadStart(EmptyRet, asn) EXCEPT !.op = "resolve", !.name = r.name,
                            !.err = r.err, !.io = r.io,
                            !.src = IF r.err = NoError THEN "store" ELSE "none"]
              /\ UNCHANGED <<pc, arg, tokens>>
    /\ UNCHANGED <<ipVars, configured, store, cache, clock, done, shadow, replaced>>

\* What the read in progress of client p had before it when it started.
ReadOf(a) ==
    [EmptyRet EXCEPT !.op = "resolve", !.asn = a.asn, !.since = a.since,
                     !.set = a.set, !.over = a.over]

ResolveCache(p) ==
    /\ pc[p] = "cache"
    /\ LET a == arg[p] IN
       IF cache[a.asn] # NoEntry
       THEN /\ ret' = [ReadOf(a) EXCEPT !.name = cache[a.asn].name,
                          !.stamp = cache[a.asn].stamp, !.src = "cache"]
            /\ Return(p)
            /\ tokens' = [tokens EXCEPT ![a.asn] = @ \ {p}]
       ELSE /\ pc' = [pc EXCEPT ![p] = "resolver"]
            /\ UNCHANGED <<arg, ret, tokens>>
    /\ UNCHANGED <<ipVars, configured, store, cache, clock, done, shadow, replaced>>

ResolveExternal(p) ==
    /\ pc[p] = "resolver"
    /\ LET a == arg[p] IN
       \/ \E name \in ResolverNames :
            /\ arg' = [arg EXCEPT ![p] = [a EXCEPT !.name = name, !.stamp = clock]]
            /\ pc' = [pc EXCEPT ![p] = "put"]
            /\ UNCHANGED <<ret, tokens>>
       \/ /\ ret' = [ReadOf(a) EXCEPT !.err = WrappedError]
          /\ tokens' = [tokens EXCEPT ![a.asn] = @ \ {p}]
          /\ Return(p)
    /\ UNCHANGED <<ipVars, configured, store, cache, clock, done, shadow, replaced>>

\* Put(asn, name): refused when a purge of asn ran since the resolution began.
Put(c, t, p, asn, name, stamp) ==
    IF p \in t[asn] THEN [c EXCEPT ![asn] = [name |-> name, stamp |-> stamp]] ELSE c

ResolvePut(p) ==
    /\ pc[p] = "put"
    /\ LET a == arg[p] IN
       /\ cache' = Put(cache, tokens, p, a.asn, a.name, a.stamp)
       /\ tokens' = [tokens EXCEPT ![a.asn] = @ \ {p}]
       /\ ret' = [ReadOf(a) EXCEPT !.name = a.name, !.stamp = a.stamp, !.src = "resolver"]
    /\ Return(p)
    /\ UNCHANGED <<ipVars, configured, store, clock, done, shadow, replaced>>

(***************************************************************************)
(* The calls of the clients in P, on the identifiers in A, with at most m  *)
(* mutations started.                                                      *)
(***************************************************************************)
Step(P, A, m) ==
    \/ \E p \in P, asn \in A : OverridesLookup(p, asn)
    \/ \E p \in P, asn \in A, descr \in Descrs : SetPurge(p, asn, descr, m)
    \/ \E p \in P : SetUpsert(p)
    \/ \E p \in P, asn \in A : RemovePurge(p, asn, m)
    \/ \E p \in P : RemoveDelete(p)
    \/ \E p \in P : OverridesList(p)
    \/ \E p \in P, asn \in A : ResolveStore(p, asn)
    \/ \E p \in P : ResolveCache(p)
    \/ \E p \in P : ResolveExternal(p)
    \/ \E p \in P : ResolvePut(p)

\* One caller, every identifier.
Next == Step(SeqClients, Asns, MaxMutations)

Spec == Init /\ [][Next]_vars

\* Concurrent callers contending on one identifier.
NextConc == Step(Clients, ConcAsns, MaxConcMutations)

SpecConc == Init /\ [][NextConc]_vars

(***************************************************************************)
(* The classifier: init() checks the two tables, then IsLocalIP answers.   *)
(***************************************************************************)
\* init() without its loop: the tables are taken as they are.
StartupNoCheck ==
    /\ ipPc = "boot"
    /\ ipPc' = "ready"
    /\ UNCHANGED <<handlerVars, input, isLocal, build, ranged>>

\* init(): panic unless every CIDR of the two tables parses.
Startup ==
    /\ ipPc = "boot"
    /\ LET cidrs == tables.v4 \o tables.v6 IN
       ipPc' = IF \A i \in 1..Len(cidrs) : ~ParseCIDR(cidrs[i]).err
               THEN "ready" ELSE "panic"
    /\ UNCHANGED <<handlerVars, input, isLocal, build, ranged>>

Classify ==
    /\ ipPc = "ready"
    /\ isLocal' = IsLocalIP(input)
    /\ ranged' = Ranged(input)
    /\ ipPc' = "done"
    /\ UNCHANGED <<handlerVars, input, build>>

(***************************************************************************)
(* The addresses IsLocalIP is given: nil, the first and the last address   *)
(* of every prefix of the tables and their two neighbours, the same IPv4   *)
(* addresses in IPv4-mapped form, some global addresses, and a slice that  *)
(* is no address.                                                          *)
(***************************************************************************)
Nets(cidrs) == {ParseCIDR(cidrs[i]) : i \in 1..Len(cidrs)}

First(n) == n.ip
Last(n) == [i \in 1..Len(n.ip) |-> n.ip[i] + (255 - n.mask[i])]

RECURSIVE Succ(_)
Succ(b) ==
    IF b = <<>> THEN <<>>
    ELSE IF b[Len(b)] < 255 THEN [b EXCEPT ![Len(b)] = @ + 1]
    ELSE Succ(SubSeq(b, 1, Len(b) - 1)) \o <<0>>

RECURSIVE Pred(_)
Pred(b) ==
    IF b = <<>> THEN <<>>
    ELSE IF b[Len(b)] > 0 THEN [b EXCEPT ![Len(b)] = @ - 1]
    ELSE Pred(SubSeq(b, 1, Len(b) - 1)) \o <<255>>

Around(n) == {First(n), Last(n), Pred(First(n)), Succ(Last(n))}

GlobalIPv4 == {<<8, 8, 8, 8>>, <<1, 1, 1, 1>>, <<193, 0, 14, 129>>}
GlobalIPv6 == {<<32, 1, 72, 96, 72, 96>> \o Zeros(8) \o <<136, 136>>,
               <<42, 0>> \o Zeros(13) \o <<1>>}

TestIPv4 == UNION {Around(n) : n \in Nets(nonGlobalIPv4CIDRs)} \cup GlobalIPv4
TestIPv6 == UNION {Around(n) : n \in Nets(nonGlobalIPv6CIDRs)} \cup GlobalIPv6

TestIPs ==
    {NilIP, IP(<<1, 2, 3>>)}
        \cup {IP(b) : b \in TestIPv4}
        \cup {IP(v4InV6Prefix \o b) : b \in TestIPv4}
        \cup {IP(b) : b \in TestIPv6}

\* Strings that are no CIDR: a prefix length beyond the address, no prefix
\* length, a byte above 255, a group that is not hexadecimal.
Malformed == {
    <<"1", "0", ".", "0", ".", "0", ".", "0", "/", "3", "3">>,
    <<"1", "0", ".", "0", ".", "0", ".", "0">>,
    <<"3", "0", "0", ".", "0", ".", "0", ".", "0", "/", "8">>,
    <<"f", "c", "0", "0", ":", ":", "/", "1", "2", "9">>,
    <<"f", "g", "0", "0", ":", ":", "/", "7">>}

\* The tables as declared, and the tables with the first or the last entry
\* of one of them replaced by a string that is no CIDR.
Builds ==
    {{}}
        \cup {{[table |-> "v4", at |-> i, cidr |-> m]} :
                  i \in {1, Len(nonGlobalIPv4CIDRs)}, m \in Malformed}
        \cup {{[table |-> "v6", at |-> i, cidr |-> m]} :
                  i \in {1, Len(nonGlobalIPv6CIDRs)}, m \in Malformed}

NextIP == Startup \/ Classify

\* A handler without overrides, any of the addresses, any of the builds.
InitClassifier == InitHandler({FALSE}) /\ InitIP(TestIPs, Builds)

SpecIP == InitClassifier /\ [][NextIP]_vars

(***************************************************************************)
(* Properties of the overrides.  ret is what the call completed last       *)
(* returned, with what it observed: had (the cache held an entry for its   *)
(* asn when the call began), purged (its own purge dropped that entry),    *)
(* wrote (it changed the collection), set (the override in force when a    *)
(* read began or an upsert was sent), since (the latest successful         *)
(* mutation completed when a read began).                                  *)
(***************************************************************************)
RejectedSet ==
    ret.op = "set" /\ configured /\ ~reASNMatch(ret.asn)

C2_CoherenceAfterSet ==
    (ret.op \in {"lookup", "resolve"} /\ ret.set # NoName /\ ret.io # DriverFailure) =>
        /\ ret.src = "store"
        /\ ret.err = NoError
        /\ ret.name = ret.set

\* A resolution populated the cache, a Set purged it and wrote v2, and a
\* resolution started afterwards answered v2.
C2_Witness ==
    /\ ret.op = "resolve"
    /\ ret.over
    /\ ret.src = "store"
    /\ ret.name \in Descrs

C4_RoundTrip ==
    /\ (ret.op = "set" /\ configured /\ reASNMatch(ret.asn) /\ ret.io # DriverFailure) =>
           /\ ret.err = NoError
           /\ Docs(store, ret.asn) = {AsnOverride(ret.asn, ret.descr)}
    /\ (ret.op = "lookup" /\ ret.set # NoName /\ ret.io # DriverFailure) =>
           /\ ret.err = NoError
           /\ ret.name = ret.set

C4_Witness ==
    ret.op = "lookup" /\ ret.set = "d2" /\ ret.name = "d2" /\ ret.asn = AS22

\* C5: with a collection configured, OverridesRemove succeeds whether or not
\* the ASN has a document, leaves the collection alone when it has none and
\* leaves none behind when it has one; a following OverridesLookup answers
\* OverridesAsnNotFoundError; a driver failure other than not-found is an error.
C5_RemoveIdempotent ==
    /\ (ret.op = "remove" /\ configured) =>
           /\ ret.io = DriverFailure => (ret.err = WrappedError /\ ~ret.wrote)
           /\ ret.io # DriverFailure => (ret.err = NoError /\ Docs(store, ret.asn) = {})
           /\ ret.io = DriverErrNotFound => ~ret.wrote
           /\ ret.err # NoError => ret.io = DriverFailure
    /\ (ret.op = "lookup" /\ configured /\ ret.set = NoName /\ ret.io # DriverFailure) =>
           ret.err = OverridesAsnNotFoundError

\* Remove of an ASN whose document an earlier Remove deleted.
C5_Witness ==
    /\ ret.op = "remove"
    /\ ret.io = DriverErrNotFound
    /\ ret.err = NoError
    /\ done[ret.asn] >= 3

\* C6: every document of the collection, and so of every list, has an
\* identifier of ASN syntax; a Set rejected as malformed adds none.
C6_StoreValid ==
    /\ \A d \in store : reASNMatch(d.asn)
    /\ ret.op = "list" => \A d \in ret.list : reASNMatch(d.asn)
    /\ (ret.op = "set" /\ ret.err = OverridesMalformedAsnError) => ~ret.wrote

C6_Witness ==
    /\ ret.op = "set"
    /\ ret.err = OverridesMalformedAsnError
    /\ store # {}

\* C7: without an overrides collection, OverridesLookup, OverridesSet,
\* OverridesRemove and OverridesList each return OverridesNilCollectionError,
\* whatever the identifier.
C7_NilCollection ==
    (~configured /\ ret.op \in {"lookup", "set", "remove", "list"}) =>
        ret.err = OverridesNilCollectionError

C7_Witness ==
    /\ ~configured
    /\ ret.op = "set"
    /\ ~reASNMatch(ret.asn)
    /\ ret.err = OverridesNilCollectionError

FailedSet ==
    ret.op = "set" /\ reASNMatch(ret.asn) /\ ret.io = DriverFailure

\* C8: OverridesSet of an ASN whose upsert fails returns the wrapped error;
\* the cache entry of the ASN is purged and the collection is as it was.
C8_FailedUpsert ==
    FailedSet =>
        /\ ret.err = WrappedError
        /\ ~ret.wrote
        /\ cache[ret.asn] = NoEntry
        /\ (ret.had => ret.purged)

C8_Witness ==
    FailedSet /\ ret.had /\ store # {}

\* The documents of the overrides set and not since removed.
Overrides == {AsnOverride(a, shadow[a]) : a \in {b \in Asns : shadow[b] # NoName}}

\* C9: with a collection configured and a driver that answers, OverridesList
\* returns exactly the overrides set and not since removed, one document
\* each, and never a nil slice.
C9_ListExact ==
    (ret.op = "list" /\ configured /\ ret.io # DriverFailure) =>
        /\ ret.err = NoError
        /\ ~ret.isNil
        /\ ret.list = Overrides

C9_Witness ==
    /\ ret.op = "list"
    /\ ret.err = NoError
    /\ Cardinality(ret.list) = 2

(***************************************************************************)
(* Properties of the classifier.                                           *)
(***************************************************************************)
\* Bit i (1 the most significant) of the address b.
Bit(b, i) == (b[((i - 1) \div 8) + 1] \div Pow2(7 - ((i - 1) % 8))) % 2

\* The length of the prefix of network n.
Ones(n) == Cardinality({i \in 1..(8 * Len(n.mask)) : Bit(n.mask, i) = 1})

\* Address b, of the family of network n, agrees with n on the bits of its prefix.
InPrefix(b, n) ==
    /\ Len(b) = Len(n.ip)
    /\ \A i \in 1..Ones(n) : Bit(b, i) = Bit(n.ip, i)

\* The table of the family of the address b.
FamilyNets(b) ==
    IF Len(b) = IPv4len THEN Nets(nonGlobalIPv4CIDRs)
    ELSE IF Len(b) = IPv6len THEN Nets(nonGlobalIPv6CIDRs)
    ELSE {}

Classified == ipPc = "done" /\ ~input.nil /\ Len(input.b) \in {IPv4len, IPv6len}

\* C10: an address inside a prefix of the table of its family is local, and
\* an address outside every prefix of that table is not.
C10_PrefixDecides ==
    Classified => (isLocal <=> \E n \in FamilyNets(input.b) : InPrefix(input.b, n))

\* C11: IsLocalIP of a nil address answers true, and ranges over neither
\* table to do so.
C11_NilIsLocal ==
    (ipPc = "done" /\ input.nil) => (isLocal /\ ranged = {})

C11_Witness ==
    ipPc = "done" /\ input.nil /\ isLocal

\* Every entry of both tables is a CIDR.
Parseable(t) ==
    \A i \in 1..Len(t.v4 \o t.v6) : ~ParseCIDR((t.v4 \o t.v6)[i]).err

\* C12: with an entry that is no CIDR in either table, init() panics and
\* IsLocalIP never runs; wherever IsLocalIP can run or has run, every entry
\* of both tables is a CIDR.
C12_StartupSelfCheck ==
    /\ ipPc \in {"ready", "done"} => Parseable(tables)
    /\ (ipPc # "boot" /\ ~Parseable(tables)) => (ipPc = "panic" /\ ranged = {})
    /\ ipPc = "panic" => ~Parseable(tables)

C12_Witness ==
    ipPc = "panic" /\ tables # Shipped /\ tables.v4 = nonGlobalIPv4CIDRs

(***************************************************************************)
(* Properties of the resolution and of the order of the steps of a         *)
(* mutation.                                                               *)
(***************************************************************************)
\* C13: a resolution whose request to the collection is answered while an
\* override is set returns that override, from the collection, whatever the
\* cache holds; a resolution goes on to the cache and to the resolver only
\* when the collection held no override for the ASN or is not configured.
C13_OverridePriority ==
    /\ (ret.op = "resolve" /\ ret.set # NoName /\ ret.io # DriverFailure) =>
          (ret.src = "store" /\ ret.err = NoError /\ ret.name = ret.set)
    /\ (ret.op = "resolve" /\ ret.src \in {"cache", "resolver"}) => ret.set = NoName
    /\ \A p \in Clients : pc[p] \in {"cache", "resolver", "put"} => arg[p].set = NoName

C13_Witness ==
    /\ ret.op = "resolve"
    /\ ret.src = "store"
    /\ cache[ret.asn] # NoEntry
    /\ cache[ret.asn].name # ret.name

\* C14: every step that changes the documents of an ASN in the collection is
\* the second step of an OverridesSet or OverridesRemove of that ASN whose
\* first step has already purged the cache entry the ASN had when the call
\* began; while the call stands between its two steps (where a crash would
\* leave it) that entry is gone and the collection is still as it was.
C14_PurgeThenPersist ==
    [][/\ \A a \in Asns :
            Docs(store', a) # Docs(store, a) =>
                \E p \in Clients :
                    /\ pc[p] \in {"set", "remove"}
                    /\ pc'[p] = "idle"
                    /\ arg[p].asn = a
                    /\ arg[p].had => (arg[p].purged /\ ret'.purged)
       /\ \A p \in Clients :
            (pc[p] = "idle" /\ pc'[p] \in {"set", "remove"}) =>
                /\ store' = store
                /\ arg'[p].had = (cache[arg'[p].asn] # NoEntry)
                /\ arg'[p].purged = arg'[p].had
                /\ cache'[arg'[p].asn] = NoEntry]_vars

C14_Witness ==
    /\ ret.op \in {"set", "remove"}
    /\ ret.wrote
    /\ ret.had
    /\ ret.purged
    /\ reASNMatch(ret.asn)

Overlap(m, n) == InPrefix(m.ip, n) \/ InPrefix(n.ip, m)

\* The pairs of entries (by position) of a table that share an address.
OverlappingPairs(cidrs) ==
    {{i, j} : <<i, j>> \in
        {<<i, j>> \in (1..Len(cidrs)) \X (1..Len(cidrs)) :
            i < j /\ Overlap(ParseCIDR(cidrs[i]), ParseCIDR(cidrs[j]))}}

\* The entries of the table of its family that hold the address b.
Holding(b) ==
    LET cidrs == IF Len(b) = IPv4len THEN tables.v4 ELSE tables.v6 IN
    {i \in 1..Len(cidrs) : InPrefix(b, ParseCIDR(cidrs[i]))}

\* C16, as stated: no two entries of one table share an address.
C16_Disjoint ==
    ipPc \in {"ready", "done"} =>
        /\ OverlappingPairs(tables.v4) = {}
        /\ OverlappingPairs(tables.v6) = {}
        /\ Classified => Cardinality(Holding(input.b)) <= 1

\* C16, amended: the entries of a table are not pairwise disjoint.  In the
\* IPv4 table 240.0.0.0/4 (13) holds 255.255.255.255/32 (14); in the IPv6
\* table 2001::/23 (4) holds 2001:2::/48 (7) and 2001::/32 (8); every other
\* pair of entries of a table is disjoint.  An IPv4 address held by two
\* entries is local like one held by one entry, and so is an IPv6 address
\* that has no 4-byte form.
C16_OverlapsNested ==
    ipPc \in {"ready", "done"} =>
        /\ OverlappingPairs(tables.v4) = {{13, 14}}
        /\ OverlappingPairs(tables.v6) = {{4, 7}, {4, 8}}
        /\ (Classified /\ Cardinality(Holding(input.b)) >= 2) =>
              (Cardinality(Holding(input.b)) = 2 /\ isLocal)

C16_Witness ==
    /\ Classified
    /\ input.b = <<255, 255, 255, 255>>
    /\ Holding(input.b) = {13, 14}
    /\ isLocal

(***************************************************************************)
(* Properties of the collection.                                           *)
(***************************************************************************)
\* C17: the collection never holds two documents of one ASN; after a
\* successful OverridesSet of an ASN that already had an override, the
\* collection holds one document of the ASN, with the description set last;
\* OverridesList never returns two documents of one ASN.
C17_OneRecordPerAsn ==
    /\ \A a \in Asns : Cardinality(Docs(store, a)) <= 1
    /\ (ret.op = "set" /\ ret.err = NoError /\ ret.set # NoName) =>
           \A d \in store : d.asn = ret.asn => d.name = ret.descr
    /\ (ret.op = "set" /\ ret.err = NoError) => \E d \in store : d.asn = ret.asn
    /\ ret.op = "list" =>
           \A d, e \in ret.list : d.asn = e.asn => d = e

\* A description set over another one.
C17_Witness ==
    /\ ret.op = "set"
    /\ ret.err = NoError
    /\ ret.set = "d1"
    /\ ret.descr = "d2"
    /\ Docs(store, ret.asn) = {AsnOverride(ret.asn, "d2")}

(***************************************************************************)
(* Properties of the choice of the table.                                  *)
(***************************************************************************)
\* The address b is 4 bytes long, or 16 bytes long and IPv4-mapped.
HasIPv4Form(b) ==
    \/ Len(b) = IPv4len
    \/ Len(b) = IPv6len /\ SubSeq(b, 1, 12) = v4InV6Prefix

\* The IPv4 address of an address that has a 4-byte form.
Embedded(b) == IF Len(b) = IPv4len THEN b ELSE SubSeq(b, 13, 16)

C19_Frame ==
    [][/\ \A p \in Clients :
            (pc[p] \in {"set", "remove"} /\ pc'[p] = "idle") =>
                \A a \in Asns \ {arg[p].asn} : Docs(store', a) = Docs(store, a)
       /\ \A p \in Clients :
            (pc[p] = "idle" /\ pc'[p] \in {"set", "remove"}) => store' = store
       /\ (ret' # ret /\ ret'.op \in {"lookup", "list"}) =>
                (store' = store /\ cache' = cache /\ tokens' = tokens)]_vars

\* An override removed while another ASN keeps its own.
C19_Witness ==
    /\ ret.op = "remove"
    /\ ret.wrote
    /\ \E d \in store : d.asn # ret.asn

\* C20: without a collection, OverridesSet and OverridesRemove return
\* OverridesNilCollectionError only after their purge: the entry the cache
\* had for the ASN when the call began is gone when the call has returned.
C20_PurgeWithoutCollection ==
    (ret.op \in {"set", "remove"} /\ ~configured) =>
        /\ ret.err = OverridesNilCollectionError
        /\ ret.had => ret.purged
        /\ cache[ret.asn] = NoEntry
        /\ store = {}

C20_Witness ==
    /\ ~configured
    /\ ret.op = "set"
    /\ ret.err = OverridesNilCollectionError
    /\ ret.had
    /\ ret.purged
    /\ cache[ret.asn] = NoEntry

====
